---- MODULE Spec2Model ----
(***************************************************************************)
(* The three ingestion scripts of dbt-nuggets-nba as one state machine.   *)
(* A behaviour is one run of one script (ingest_boxscores.main, or the    *)
(* module-level code of ingest_games / ingest_player_game_logs) against   *)
(* the statistics service and the Postgres destination table.             *)
(*                                                                         *)
(* A data frame is a record [columns, rows]: a set of column names and a  *)
(* sequence of rows, each row a function from the columns to values.      *)
(***************************************************************************)
EXTENDS Integers, Sequences, FiniteSets, TLC

VARIABLES
    script,     \* which script this run executes
    txn_scope,  \* what the sink write runs inside of (see TxnScopes)
    pc,         \* position in the script
    status,     \* "running", "ok" (written), "noop" (early return), "raised"
    error,      \* where an unrecovered exception came from
    game_ids,   \* ingest_boxscores: the WorkItem list read from raw_nba_games
    idx,        \* ingest_boxscores: number of loop iterations done
    all_rows,   \* ingest_boxscores: the accumulator, a sequence of frames
    full_df,    \* ingest_boxscores: the concatenated, renamed frame
    df,         \* season scripts: the fetched frame
    df_clean,   \* season scripts: the renamed (and stamped) frame
    table,      \* the destination table as committed in the database
    work,       \* the destination table as seen inside the open transaction
    prior,      \* history: the destination table before the run
    events,     \* history: fetch requests and delays, in the order executed
    writes,     \* history: number of to_sql calls started
    observed    \* what a concurrent reader last saw of the destination table

vars == <<script, txn_scope, pc, status, error, game_ids, idx, all_rows, full_df,
          df, df_clean, table, work, prior, events, writes, observed>>

----------------------------------------------------------------------------
(* Bounds *)

MaxGames == 3

MaxRows == 1

----------------------------------------------------------------------------
(* Values *)

\* pandas' missing value (None / NaN); game ids and cell values are >= 1
Null == 0

SEASON == "2023-24"

Scripts == {"boxscores", "games", "player_logs"}

SeasonScripts == {"games", "player_logs"}

\* "begin":  the caller's engine.begin() block: one transaction round to_sql
\* "to_sql": to_sql is handed the bare engine and runs the whole replace in one
\*           transaction of its own
\* "insert": to_sql is handed the bare engine, commits DROP and CREATE as they
\*           run, and runs only the INSERT in a transaction
TxnScopes == {"begin", "to_sql", "insert"}

GameIds == 1..MaxGames

EmptyFrame == [columns |-> {}, rows |-> <<>>]

NoTable == [exists |-> FALSE, columns |-> {}, rows |-> <<>>]

TableOf(frame) == [exists |-> TRUE, columns |-> frame.columns, rows |-> frame.rows]

\* a destination table left by an earlier, unrelated load
LegacyTable == [exists |-> TRUE, columns |-> {"legacy"}, rows |-> <<[legacy |-> 1]>>]

----------------------------------------------------------------------------
(* Inputs: what the upstream table and the statistics service can return *)

RECURSIVE SortedSeq(_)
\* ORDER BY game_id over SELECT DISTINCT: the ids of S in ascending order
SortedSeq(S) ==
    IF S = {} THEN <<>>
    ELSE LET m == CHOOSE x \in S : \A y \in S : x <= y
         IN <<m>> \o SortedSeq(S \ {m})

GameIdLists == {SortedSeq(S) : S \in SUBSET GameIds}

\* player-level frames the service can return for game g: 0..MaxRows rows, with
\* or without a GAME_ID column, whose cells hold g or are missing
BoxFrames(g) ==
    UNION {
        {[columns |-> {"personId"},
          rows |-> [k \in 1..n |-> [personId |-> k]]]}
        \cup
        {[columns |-> {"personId", "GAME_ID"},
          rows |-> [k \in 1..n |-> [personId |-> k, GAME_ID |-> v[k]]]]
            : v \in [1..n -> {g, Null}]}
        : n \in 0..MaxRows}

TeamTotals == [columns |-> {"teamId"}, rows |-> <<[teamId |-> 1]>>]

\* get_data_frames() of BoxScoreTraditionalV3: no frames, or the player frame
\* followed by the team frame
BoxResults(g) == {<<>>} \cup {<<f, TeamTotals>> : f \in BoxFrames(g)}

\* the first frame of TeamGameLog
GamesFrames ==
    UNION {
        {[columns |-> {"Game_ID", "PTS"},
          rows |-> [k \in 1..n |-> [Game_ID |-> k, PTS |-> 100 + k]]],
         [columns |-> {"Game_ID", "PTS", "season"},
          rows |-> [k \in 1..n |-> [Game_ID |-> k, PTS |-> 100 + k,
                                    season |-> "1999-00"]]]}
        : n \in 0..MaxRows}

\* the first frame of LeagueGameLog
PlayerLogFrames ==
    UNION {
        {[columns |-> {"Player_ID", "Game_ID", "SEASON_ID"},
          rows |-> [k \in 1..n |-> [Player_ID |-> k, Game_ID |-> 1,
                                    SEASON_ID |-> 22023]]],
         [columns |-> {"PLAYER_ID", "GAME_ID", "SEASON_ID"},
          rows |-> [k \in 1..n |-> [PLAYER_ID |-> k, GAME_ID |-> 1,
                                    SEASON_ID |-> 22023]]]}
        : n \in 0..MaxRows}

----------------------------------------------------------------------------
(* pandas operations, as the scripts use them *)

\* DataFrame.rename(columns=mapping): columns named in the mapping take their
\* new name, the others keep theirs; cells are untouched
Rename(frame, mapping) ==
    LET new(c) == IF c \in DOMAIN mapping THEN mapping[c] ELSE c
        cols == {new(c) : c \in frame.columns}
    IN [columns |-> cols,
        rows |-> [i \in 1..Len(frame.rows) |->
                    [d \in cols |->
                        frame.rows[i][CHOOSE c \in frame.columns : new(c) = d]]]]

\* frame[col] = value: the column is added, or overwritten, in every row
SetColumn(frame, col, value) ==
    [columns |-> frame.columns \cup {col},
     rows |-> [i \in 1..Len(frame.rows) |->
                [c \in frame.columns \cup {col} |->
                    IF c = col THEN value ELSE frame.rows[i][c]]]]

\* a frame's rows over a wider column set, cells of new columns missing
Reindex(frame, cols) ==
    [i \in 1..Len(frame.rows) |->
        [c \in cols |-> IF c \in frame.columns THEN frame.rows[i][c] ELSE Null]]

RECURSIVE AllColumns(_)
AllColumns(frames) ==
    IF frames = <<>> THEN {}
    ELSE Head(frames).columns \cup AllColumns(Tail(frames))

RECURSIVE ConcatRows(_, _)
ConcatRows(frames, cols) ==
    IF frames = <<>> THEN <<>>
    ELSE Reindex(Head(frames), cols) \o ConcatRows(Tail(frames), cols)

\* pd.concat(frames, ignore_index=True): the union of the columns, the rows of
\* the frames one after the other in list order
Concat(frames) ==
    [columns |-> AllColumns(frames), rows |-> ConcatRows(frames, AllColumns(frames))]

RECURSIVE RowCount(_)
\* total number of rows held by a list of frames
RowCount(frames) ==
    IF frames = <<>> THEN 0
    ELSE Len(Head(frames).rows) + RowCount(Tail(frames))

----------------------------------------------------------------------------
(* ingest_boxscores.main *)

\* lines 57-59: GAME_ID is set from the loop variable only when the frame has
\* no such column
AttachGameId(player_stats_df, game_id) ==
    IF "GAME_ID" \notin player_stats_df.columns
    THEN SetColumn(player_stats_df, "GAME_ID", game_id)
    ELSE player_stats_df

\* the try body with the frame put at the front of the accumulator
TryBodyPrepend(acc, dfs, game_id) ==
    IF dfs = <<>> THEN acc
    ELSE <<AttachGameId(dfs[1], game_id)>> \o acc

\* lines 48-61: the try body once get_data_frames() has returned dfs
TryBody(acc, dfs, game_id) ==
    IF dfs = <<>> THEN acc
    ELSE Append(acc, AttachGameId(dfs[1], game_id))

\* the except branch with the append placed after the try statement: the frame
\* of the last successful iteration is appended once more
ExceptBodyStaleAppend(acc) ==
    IF acc = <<>> THEN acc ELSE Append(acc, acc[Len(acc)])

\* lines 63-65: the except branch leaves the accumulator alone
ExceptBody(acc) == acc

\* which iterations reach time.sleep(0.6) on line 68: both the "no data
\* frames" branch and the except branch end in continue
ReachesSleep(kind) == kind = "ok"

\* the events one iteration adds: the request, then the delay if it is reached
IterationEvents(game_id, kind, frame) ==
    <<[op |-> "fetch", game_id |-> game_id, kind |-> kind, frame |-> frame]>>
    \o (IF ReachesSleep(kind) THEN <<[op |-> "sleep", game_id |-> game_id,
                                      kind |-> kind, frame |-> EmptyFrame]>>
        ELSE <<>>)

\* lines 81-82
NormalizeKey(frame) ==
    IF "GAME_ID" \in frame.columns
    THEN Rename(frame, [GAME_ID |-> "game_id"])
    ELSE frame

\* the test of line 70 inverted
NothingCollectedInverted(acc) == acc # <<>>

\* line 70: the test is on the list of frames, not on the rows they hold
NothingCollected(acc) == acc = <<>>

\* the loop left after its first iteration
LoopDoneAfterFirst(i, ids) == i >= 1 \/ i = Len(ids)

\* line 43: the for loop ends when every element of game_ids has been visited
LoopDone(i, ids) == i = Len(ids)

\* lines 31-38: the WorkItem list is read
LoadGameIds ==
    /\ script = "boxscores" /\ pc = "load"
    /\ \E ids \in GameIdLists : game_ids' = ids
    /\ pc' = "loop"
    /\ UNCHANGED <<script, txn_scope, status, error, idx, all_rows, full_df, df,
                   df_clean, table, work, prior, events, writes, observed>>

\* lines 31-35: the read of raw_nba_games raises; nothing catches it
LoadFails ==
    /\ script = "boxscores" /\ pc = "load"
    /\ pc' = "done" /\ status' = "raised" /\ error' = "upstream"
    /\ UNCHANGED <<script, txn_scope, game_ids, idx, all_rows, full_df, df,
                   df_clean, table, work, prior, events, writes, observed>>

\* lines 43-68, one iteration in which get_data_frames() returns
FetchReturns ==
    /\ script = "boxscores" /\ pc = "loop" /\ ~LoopDone(idx, game_ids)
    /\ LET game_id == game_ids[idx + 1] IN
        \E dfs \in BoxResults(game_id) :
            /\ all_rows' = TryBody(all_rows, dfs, game_id)
            /\ events' = events \o
                 IterationEvents(game_id,
                                 IF dfs = <<>> THEN "empty" ELSE "ok",
                                 IF dfs = <<>> THEN EmptyFrame ELSE dfs[1])
    /\ idx' = idx + 1
    /\ UNCHANGED <<script, txn_scope, pc, status, error, game_ids, full_df, df,
                   df_clean, table, work, prior, writes, observed>>

\* lines 43-68, one iteration in which the request raises
FetchRaises ==
    /\ script = "boxscores" /\ pc = "loop" /\ ~LoopDone(idx, game_ids)
    /\ all_rows' = ExceptBody(all_rows)
    /\ events' = events \o IterationEvents(game_ids[idx + 1], "raise", EmptyFrame)
    /\ idx' = idx + 1
    /\ UNCHANGED <<script, txn_scope, pc, status, error, game_ids, full_df, df,
                   df_clean, table, work, prior, writes, observed>>

\* lines 70-72: nothing was appended, the run returns
EarlyReturn ==
    /\ script = "boxscores" /\ pc = "loop" /\ LoopDone(idx, game_ids)
    /\ NothingCollected(all_rows)
    /\ pc' = "done" /\ status' = "noop"
    /\ UNCHANGED <<script, txn_scope, error, game_ids, idx, all_rows, full_df, df,
                   df_clean, table, work, prior, events, writes, observed>>

\* lines 75-82: concatenate and normalise the key column
BuildFullDf ==
    /\ script = "boxscores" /\ pc = "loop" /\ LoopDone(idx, game_ids)
    /\ ~NothingCollected(all_rows)
    /\ full_df' = NormalizeKey(Concat(all_rows))
    /\ pc' = "write"
    /\ UNCHANGED <<script, txn_scope, status, error, game_ids, idx, all_rows, df,
                   df_clean, table, work, prior, events, writes, observed>>

----------------------------------------------------------------------------
(* ingest_games and ingest_player_game_logs *)

GamesRenames ==
    [Game_ID |-> "game_id", GAME_DATE |-> "game_date", MATCHUP |-> "matchup",
     WL |-> "win_loss", PTS |-> "team_points"]

PlayerLogsRenames ==
    [Player_ID |-> "player_id", Player_Name |-> "player_name",
     Team_ID |-> "team_id", Team_Name |-> "team_name", Game_ID |-> "game_id"]

\* ingest_games without line 22
CleanGamesUnstamped(frame) ==
    Rename(frame, [Game_ID |-> "game_id", GAME_DATE |-> "game_date",
                   MATCHUP |-> "matchup", WL |-> "win_loss", PTS |-> "team_points"])

\* ingest_games lines 14-22
CleanGames(frame) == SetColumn(Rename(frame, GamesRenames), "season", SEASON)

\* ingest_player_game_logs lines 20-26
CleanPlayerLogs(frame) == Rename(frame, PlayerLogsRenames)

\* the single request of a season script returns its first frame
SeasonFetch ==
    /\ script \in SeasonScripts /\ pc = "fetch"
    /\ \E f \in (IF script = "games" THEN GamesFrames ELSE PlayerLogFrames) :
            df' = f
    /\ pc' = "clean"
    /\ UNCHANGED <<script, txn_scope, status, error, game_ids, idx, all_rows,
                   full_df, df_clean, table, work, prior, events, writes, observed>>

\* the single request of a season script raises; nothing catches it
SeasonFetchFails ==
    /\ script \in SeasonScripts /\ pc = "fetch"
    /\ pc' = "done" /\ status' = "raised" /\ error' = "fetch"
    /\ UNCHANGED <<script, txn_scope, game_ids, idx, all_rows, full_df, df,
                   df_clean, table, work, prior, events, writes, observed>>

SeasonClean ==
    /\ script \in SeasonScripts /\ pc = "clean"
    /\ df_clean' = IF script = "games" THEN CleanGames(df) ELSE CleanPlayerLogs(df)
    /\ pc' = "write"
    /\ UNCHANGED <<script, txn_scope, status, error, game_ids, idx, all_rows,
                   full_df, df, table, work, prior, events, writes, observed>>

----------------------------------------------------------------------------
(* The sink write: to_sql(..., if_exists="replace", index=False) *)

\* the frame handed to to_sql
SinkData == IF script = "boxscores" THEN full_df ELSE df_clean

\* to_sql called with if_exists="append"
IfExistsAppend == "append"

\* the if_exists argument of the three to_sql calls
IfExists == "replace"

\* whether DROP TABLE and CREATE TABLE take effect in the database only at the
\* final commit
DdlInTransaction(scope) == scope \in {"begin", "to_sql"}

\* the table after to_sql's drop step: "replace" drops an existing table
Dropped(t) == IF IfExists = "replace" THEN NoTable ELSE t

\* the table after to_sql's create step: a missing table is created from the
\* frame's columns, without rows
Created(t, frame) ==
    IF t.exists THEN t ELSE TableOf([columns |-> frame.columns, rows |-> <<>>])

\* the table after the INSERT: the frame's rows follow the rows it held
Inserted(t, frame) == [t EXCEPT !.rows = @ \o Reindex(frame, t.columns)]

\* to_sql is entered
SinkStart ==
    /\ pc = "write"
    /\ writes' = writes + 1
    /\ work' = table
    /\ pc' = "drop"
    /\ UNCHANGED <<script, txn_scope, status, error, game_ids, idx, all_rows,
                   full_df, df, df_clean, table, prior, events, observed>>

\* DROP TABLE
SinkDrop ==
    /\ pc = "drop"
    /\ work' = Dropped(work)
    /\ table' = IF DdlInTransaction(txn_scope) THEN table ELSE work'
    /\ pc' = "create"
    /\ UNCHANGED <<script, txn_scope, status, error, game_ids, idx, all_rows,
                   full_df, df, df_clean, prior, events, writes, observed>>

\* CREATE TABLE
SinkCreate ==
    /\ pc = "create"
    /\ work' = Created(work, SinkData)
    /\ table' = IF DdlInTransaction(txn_scope) THEN table ELSE work'
    /\ pc' = "insert"
    /\ UNCHANGED <<script, txn_scope, status, error, game_ids, idx, all_rows,
                   full_df, df, df_clean, prior, events, writes, observed>>

\* all rows are inserted by one statement inside a transaction
SinkInsert ==
    /\ pc = "insert"
    /\ work' = Inserted(work, SinkData)
    /\ pc' = "commit"
    /\ UNCHANGED <<script, txn_scope, status, error, game_ids, idx, all_rows,
                   full_df, df, df_clean, table, prior, events, writes, observed>>

\* the open transaction commits and the script prints its last line
SinkCommit ==
    /\ pc = "commit"
    /\ table' = work
    /\ pc' = "done" /\ status' = "ok"
    /\ UNCHANGED <<script, txn_scope, error, game_ids, idx, all_rows, full_df,
                   df, df_clean, work, prior, events, writes, observed>>

\* the connection or a statement fails: the open transaction is rolled back and
\* the exception leaves the script
SinkFails ==
    /\ pc \in {"write", "drop", "create", "insert", "commit"}
    /\ work' = table
    /\ pc' = "done" /\ status' = "raised" /\ error' = "sink"
    /\ UNCHANGED <<script, txn_scope, game_ids, idx, all_rows, full_df, df,
                   df_clean, table, prior, events, writes, observed>>

----------------------------------------------------------------------------
(* A concurrent reader of the destination table *)

\* how the table's committed state relates to the run
View(t) ==
    CASE t = prior -> "prior"
      [] pc \notin {"load", "loop", "fetch", "clean"} /\ t = TableOf(SinkData) -> "new"
      [] ~t.exists -> "missing"
      [] OTHER -> "other"

Reader ==
    /\ observed' = View(table)
    /\ UNCHANGED <<script, txn_scope, pc, status, error, game_ids, idx, all_rows,
                   full_df, df, df_clean, table, work, prior, events, writes>>

----------------------------------------------------------------------------

Init ==
    /\ script \in Scripts
    /\ txn_scope \in IF script = "boxscores" THEN {"begin"} ELSE {"to_sql", "insert"}
    /\ pc = IF script = "boxscores" THEN "load" ELSE "fetch"
    /\ status = "running"
    /\ error = "none"
    /\ game_ids = <<>>
    /\ idx = 0
    /\ all_rows = <<>>
    /\ full_df = EmptyFrame
    /\ df = EmptyFrame
    /\ df_clean = EmptyFrame
    /\ table \in {NoTable, LegacyTable}
    /\ work = table
    /\ prior = table
    /\ events = <<>>
    /\ writes = 0
    /\ observed = "prior"

Next ==
    \/ LoadGameIds
    \/ LoadFails
    \/ FetchReturns
    \/ FetchRaises
    \/ EarlyReturn
    \/ BuildFullDf
    \/ SeasonFetch
    \/ SeasonFetchFails
    \/ SeasonClean
    \/ SinkStart
    \/ SinkDrop
    \/ SinkCreate
    \/ SinkInsert
    \/ SinkCommit
    \/ SinkFails
    \/ Reader

Spec == Init /\ [][Next]_vars

----------------------------------------------------------------------------
(* Vocabulary of the properties *)

IsFetch(e) == e.op = "fetch"

IsOkFetch(e) == e.op = "fetch" /\ e.kind = "ok"

\* the fetch requests issued so far, in order
Fetches == SelectSeq(events, IsFetch)

\* the requests that returned a player frame, in order
OkFetches == SelectSeq(events, IsOkFetch)

\* the frames those requests returned, in order
ReturnedFrames == [i \in 1..Len(OkFetches) |-> OkFetches[i].frame]

\* the per-game loop has visited every WorkItem
LoopOver == script = "boxscores" /\ pc \notin {"load", "loop"} /\ error # "upstream"

\* the frame has been handed to to_sql
HandedToSink == writes >= 1

TypeOK ==
    /\ script \in Scripts
    /\ txn_scope \in TxnScopes
    /\ pc \in {"load", "loop", "fetch", "clean", "write", "drop", "create",
               "insert", "commit", "done"}
    /\ status \in {"running", "ok", "noop", "raised"}
    /\ error \in {"none", "upstream", "fetch", "sink"}
    /\ idx \in 0..Len(game_ids)
    /\ writes \in 0..1
    /\ observed \in {"prior", "new", "missing", "other"}

----------------------------------------------------------------------------
(* C1: in ingest_boxscores, whichever of the WorkItems' fetches raise, the   *)
(* exception never leaves the run (a run that raised did so reading the      *)
(* upstream table or writing to the sink), a failed or frameless item adds   *)
(* no frame to the accumulator, and the accumulated number of records is the *)
(* sum of the row counts of the frames the successful fetches returned, in   *)
(* the accumulator during the loop and in full_df once it is built.          *)
C1_FailuresIsolated ==
    script = "boxscores" =>
        /\ error # "fetch"
        /\ Len(all_rows) = Len(OkFetches)
        /\ RowCount(all_rows) = RowCount(ReturnedFrames)
        /\ (LoopOver /\ ~NothingCollected(all_rows)
                => Len(full_df.rows) = RowCount(ReturnedFrames))
        /\ (LoopOver => Len(Fetches) = Len(game_ids))

\* two of three fetches raised, the third returned a row, and the run wrote
C1_Witness ==
    /\ script = "boxscores" /\ pc = "done" /\ status = "ok"
    /\ Len(game_ids) = 3
    /\ Len(OkFetches) = 1
    /\ Fetches[1].kind = "raise" /\ Fetches[3].kind = "raise"
    /\ Len(full_df.rows) = 1

(* C2: in ingest_boxscores, when no fetch returned a frame (the WorkItem     *)
(* list is empty, or every fetch raised or returned no frames), to_sql is    *)
(* never called, the destination table keeps its contents, and the run ends  *)
(* by the early return, not by an exception.                                 *)
C2_NoSuccessNoWrite ==
    (script = "boxscores" /\ OkFetches = <<>>) =>
        /\ writes = 0
        /\ table = prior
        /\ pc \in {"load", "loop", "done"}
        /\ (pc = "done" /\ error # "upstream" => status = "noop" /\ error = "none")

\* every fetch of a two-game list failed and the run returned early
C2_Witness ==
    /\ script = "boxscores" /\ pc = "done" /\ status = "noop"
    /\ Len(game_ids) = 2 /\ Len(Fetches) = 2
    /\ \A i \in 1..2 : Fetches[i].kind = "raise"
    /\ prior = LegacyTable /\ table = LegacyTable

(* C3: in ingest_boxscores, whenever the accumulated dataset holds no        *)
(* records once the loop is over, also when fetches returned frames with     *)
(* no rows, the run writes nothing and ends by the early return; otherwise   *)
(* the table holds its prior contents or exactly the dataset.                *)
C3_EmptyDatasetNeverWritten ==
    script = "boxscores" =>
        /\ (LoopOver /\ RowCount(all_rows) = 0
                => writes = 0 /\ table = prior /\ (pc = "done" => status = "noop"))
        /\ (table = prior \/ table = TableOf(full_df))

(* C4: in the per-game loop a delay follows every fetch request, whatever    *)
(* the outcome of the request.                                               *)
C4_DelayAfterEveryFetch ==
    \A i \in 1..Len(events) :
        IsFetch(events[i]) =>
            /\ i < Len(events)
            /\ events[i + 1].op = "sleep"

(* C5: in ingest_boxscores, every record of the frame handed to to_sql has   *)
(* a game_id field that is not missing, whether or not the fetched frame     *)
(* carried a GAME_ID column.                                                 *)
C5_JoinKeyNeverNull ==
    (script = "boxscores" /\ HandedToSink) =>
        /\ "game_id" \in full_df.columns
        /\ \A i \in 1..Len(full_df.rows) : full_df.rows[i]["game_id"] # Null

(* C6: after a run of any of the three scripts whose write completed, the    *)
(* destination table holds exactly the columns and rows of the frame given   *)
(* to to_sql, whatever it held before the run.                               *)
C6_FullReplace ==
    status = "ok" =>
        /\ table.exists
        /\ table.columns = SinkData.columns
        /\ table.rows = SinkData.rows

\* a boxscores run over a legacy table wrote the rows of two games
C6_Witness ==
    /\ status = "ok" /\ script = "boxscores"
    /\ prior = LegacyTable
    /\ Len(OkFetches) = 2
    /\ Len(table.rows) = 2
    /\ table.rows = full_df.rows

(* C7: when the sink write fails the destination table is in its pre-run     *)
(* state, and at no time does the database, or a concurrent reader of it,    *)
(* show anything but the prior table or the complete new one.                *)
C7_WriteAllOrNothing ==
    /\ (status = "raised" /\ error = "sink" => table = prior)
    /\ (table = prior \/ (HandedToSink /\ table = TableOf(SinkData)))
    /\ observed \in {"prior", "new"}

(* C8: in ingest_games and ingest_player_game_logs, every record written to  *)
(* the destination table has the field season, holding the run's SEASON.     *)
C8_SeasonStampedBoth ==
    (script \in SeasonScripts /\ status = "ok") =>
        \A i \in 1..Len(table.rows) :
            /\ "season" \in DOMAIN table.rows[i]
            /\ table.rows[i]["season"] = SEASON

(* C8, amended: in ingest_games, every record handed to to_sql, and every    *)
(* record written to the destination table, has the field season holding     *)
(* the run's SEASON, also when the fetched frame had a season column.        *)
C8_SeasonStampedGames ==
    (script = "games" /\ pc \notin {"fetch", "clean"} /\ error # "fetch") =>
        /\ "season" \in df_clean.columns
        /\ \A i \in 1..Len(df_clean.rows) : df_clean.rows[i]["season"] = SEASON
        /\ (status = "ok" =>
                \A i \in 1..Len(table.rows) :
                    /\ "season" \in DOMAIN table.rows[i]
                    /\ table.rows[i]["season"] = SEASON)

\* a games run whose fetched frame had its own season column wrote a row
C8_Witness ==
    /\ script = "games" /\ status = "ok"
    /\ "season" \in df.columns
    /\ Len(df.rows) = 1 /\ df.rows[1]["season"] # SEASON
    /\ Len(table.rows) = 1

(* C9: the per-game loop issues one fetch request per WorkItem visited, in   *)
(* the order of game_ids, none twice, and the accumulator holds the frames   *)
(* of the successful requests in that order.                                 *)
C9_OneFetchPerItemInOrder ==
    script = "boxscores" =>
        /\ Len(Fetches) = idx
        /\ \A i \in 1..Len(Fetches) : Fetches[i].game_id = game_ids[i]
        /\ (LoopOver => Len(Fetches) = Len(game_ids))
        /\ Len(all_rows) = Len(OkFetches)
        /\ \A i \in 1..Len(all_rows) :
            /\ Len(all_rows[i].rows) = Len(OkFetches[i].frame.rows)
            /\ OkFetches[i].frame.columns \subseteq all_rows[i].columns
            /\ \A k \in 1..Len(all_rows[i].rows) :
                \A c \in OkFetches[i].frame.columns :
                    all_rows[i].rows[k][c] = OkFetches[i].frame.rows[k][c]

\* three games, the middle fetch raised, the first returned a row with its own
\* GAME_ID and the last an empty frame
C9_Witness ==
    /\ script = "boxscores" /\ pc = "write"
    /\ Len(game_ids) = 3
    /\ Fetches[2].kind = "raise"
    /\ Len(all_rows) = 2
    /\ Len(all_rows[1].rows) = 1 /\ Len(all_rows[2].rows) = 0
    /\ "GAME_ID" \in OkFetches[1].frame.columns

(* C10: in ingest_boxscores to_sql is called at most once, and only once     *)
(* every WorkItem has been requested; while the loop runs the destination    *)
(* table is untouched, and no request follows the start of the write.        *)
C10_WriteOnceAfterLoop ==
    script = "boxscores" =>
        /\ writes <= 1
        /\ (pc \in {"load", "loop"} => writes = 0 /\ table = prior)
        /\ (HandedToSink \/ pc = "write"
                => idx = Len(game_ids) /\ Len(Fetches) = Len(game_ids))

\* a three-game run reached the write with every game requested
C10_Witness ==
    /\ script = "boxscores" /\ pc = "drop" /\ writes = 1
    /\ Len(game_ids) = 3 /\ Len(Fetches) = 3

====
